---- MODULE Spec2Model ----
(***************************************************************************)
(* fetch_tech_news.py: fetch five RSS feeds one after the other, normalise *)
(* the first entries of each, keep those of the last 24 hours (or without  *)
(* a date), sort newest first, print and return the first ten.             *)
(*                                                                         *)
(* Time is counted in whole hours.  A raw attribute of a feedparser entry  *)
(* is a sequence: <<>> when the entry has no such attribute, <<v>> when it *)
(* has it with value v.  A parsed time v is <<>> (None) or the pair        *)
(* <<t, wd>>: t stands for the six leading fields of the struct_time, wd   *)
(* for the fields the program drops.                                       *)
(***************************************************************************)
EXTENDS Integers, Sequences, FiniteSets, TLC

VARIABLES
    pc,           \* position of main: "loop", "done" or "crashed"
    i,            \* index of the next feed of the list (the for of line 44)
    now,          \* the clock reading of line 42
    cutoff_time,  \* line 42
    fetched,      \* the source names fetch_feed was called with, in order
    served,       \* what feedparser.parse produced for each of these calls
    entries,      \* line 45: the result of the last fetch_feed call
    all_entries,  \* line 41
    top_10,       \* line 55
    stdout        \* every line printed so far

vars == <<pc, i, now, cutoff_time, fetched, served, entries, all_entries, top_10, stdout>>

----------------------------------------------------------------------------
(* Program constants *)

NumFeeds == 5
PerFeed == 5
TopN == 10
Window == 24
None == 0 - 1
DateMin == 0

(* Bounds of the model *)

MaxDate == 3      \* time stamps of entries range over 1..MaxDate
MaxFree == 2      \* entries of arbitrary kind served in one run (Spec)
MaxPad == 3       \* length of the fixed part of a served feed (Spec)
MaxRawLen == 2    \* length of a served feed (SpecFetch)

feeds ==
    << [url |-> "https://techcrunch.com/feed/", name |-> "TechCrunch"],
       [url |-> "https://www.theverge.com/rss/index.xml", name |-> "The Verge"],
       [url |-> "https://www.wired.com/feed/rss", name |-> "Wired"],
       [url |-> "https://arstechnica.com/feed/", name |-> "Ars Technica"],
       [url |-> "https://feeds.bbci.co.uk/news/technology/rss.xml", name |-> "BBC Tech"] >>

----------------------------------------------------------------------------
(* Helpers *)

Min(a, b) == IF a <= b THEN a ELSE b

Take(s, n) == SubSeq(s, 1, Min(n, Len(s)))

Range(s) == {s[k] : k \in DOMAIN s}

hasattr(entry, a) == entry[a] # <<>>

getattr(entry, a) == entry[a][1]

truthy(v) == v # <<>>

\* datetime(*parsed[:6], tzinfo=timezone.utc): the six leading fields only
ToDatetime(parsed) == parsed[1]

StructTime(t) == <<t, t % 7>>

----------------------------------------------------------------------------
(* What feedparser.parse can produce (line 10) *)

\* A time attribute: missing, None, or a parsed time
ParsedAttrs == {<<>>, << <<>> >>, <<StructTime(1)>>, <<StructTime(MaxDate)>>}

\* An entry but for its title, which MkEntry sets to the entry's position
RichKinds ==
    [titled : BOOLEAN, published_parsed : ParsedAttrs,
     updated_parsed : ParsedAttrs, link : {<<>>, <<"url">>}]

DatedKind(t) ==
    [titled |-> TRUE, published_parsed |-> <<StructTime(t)>>,
     updated_parsed |-> <<>>, link |-> <<"url">>]

DatelessKind ==
    [titled |-> TRUE, published_parsed |-> <<>>,
     updated_parsed |-> <<>>, link |-> <<"url">>]

UntitledKind == [DatelessKind EXCEPT !.titled = FALSE]

FreeKinds == {DatedKind(t) : t \in 1..MaxDate} \cup {DatelessKind, UntitledKind}

MkEntry(kind, k) ==
    [title |-> IF kind.titled THEN <<ToString(k)>> ELSE <<>>,
     published_parsed |-> kind.published_parsed,
     updated_parsed |-> kind.updated_parsed,
     link |-> kind.link]

MkFeed(kinds) ==
    [raises |-> FALSE,
     entries |-> [k \in 1..Len(kinds) |-> MkEntry(kinds[k], k)]]

\* feedparser.parse raises
ParseError == [raises |-> TRUE, entries |-> <<>>]

SeqsUpTo(S, n) == UNION {[1..m -> S] : m \in 0..n}

\* The fixed part of a feed of Spec: dated and dateless entries in turn
PadKinds ==
    [k \in 1..MaxPad |-> IF k % 2 = 1 THEN DatedKind(MaxDate - 1) ELSE DatelessKind]

RECURSIVE FreeServed(_)
FreeServed(s) ==
    IF s = <<>> THEN 0
    ELSE (IF Head(s).raises THEN 0 ELSE Len(Head(s).entries) - MaxPad)
         + FreeServed(Tail(s))

\* Feeds of Spec: the fixed part, then entries of any kind while the run's
\* budget of them lasts
PadFeeds(budget) ==
    {ParseError} \cup {MkFeed(PadKinds \o f) : f \in SeqsUpTo(FreeKinds, budget)}

\* Feeds of SpecFetch: short, of every kind, or long and uniform
RichFeeds(n) ==
    {ParseError}
    \cup {MkFeed(f) : f \in SeqsUpTo(RichKinds, n)}
    \cup {MkFeed([k \in 1..(PerFeed + 1) |-> kd]) : kd \in FreeKinds}

\* The run starts when the entries stamped MaxDate - 1 are 24 hours old
StartTime == Window + MaxDate - 1

----------------------------------------------------------------------------
(* fetch_feed, lines 7-29 *)

\* pub_date with the updated time tried first
pub_date_updated_first(entry) ==
    IF hasattr(entry, "updated_parsed") /\ truthy(getattr(entry, "updated_parsed"))
    THEN ToDatetime(getattr(entry, "updated_parsed"))
    ELSE IF hasattr(entry, "published_parsed") /\ truthy(getattr(entry, "published_parsed"))
    THEN ToDatetime(getattr(entry, "published_parsed"))
    ELSE None

\* lines 14-18
pub_date(entry) ==
    IF hasattr(entry, "published_parsed") /\ truthy(getattr(entry, "published_parsed"))
    THEN ToDatetime(getattr(entry, "published_parsed"))
    ELSE IF hasattr(entry, "updated_parsed") /\ truthy(getattr(entry, "updated_parsed"))
    THEN ToDatetime(getattr(entry, "updated_parsed"))
    ELSE None

\* line 21: entry.title raises AttributeError when the entry has no title
RaisesOn(entry) == ~hasattr(entry, "title")

\* lines 20-25
Normalized(entry, source_name) ==
    [headline |-> getattr(entry, "title"),
     source |-> source_name,
     date |-> pub_date(entry),
     link |-> IF hasattr(entry, "link") THEN getattr(entry, "link") ELSE ""]

\* lines 12-25: the loop, left at the first entry that raises
RECURSIVE LoopBody(_, _, _)
LoopBody(rest, source_name, acc) ==
    IF rest = <<>> THEN [exc |-> FALSE, val |-> acc]
    ELSE IF RaisesOn(Head(rest)) THEN [exc |-> TRUE, val |-> acc]
    ELSE LoopBody(Tail(rest), source_name, Append(acc, Normalized(Head(rest), source_name)))

\* lines 10-26: the body of the try
TryBody(raw, source_name) ==
    IF raw.raises THEN [exc |-> TRUE, val |-> <<>>]
    ELSE LoopBody(Take(raw.entries, PerFeed), source_name, <<>>)

Line(kind, n, source, headline, date_str) ==
    [kind |-> kind, n |-> n, source |-> source, headline |-> headline,
     date_str |-> date_str]

\* fetch_feed returning what it had normalized when the exception came
fetch_feed_partial(raw, source_name) ==
    LET r == TryBody(raw, source_name) IN
    IF r.exc
    THEN [exc |-> FALSE, val |-> r.val,
          printed |-> <<Line("error", 0, source_name, <<>>, "")>>]
    ELSE [exc |-> FALSE, val |-> r.val, printed |-> <<>>]

\* fetch_feed catching nothing
fetch_feed_uncaught(raw, source_name) ==
    LET r == TryBody(raw, source_name) IN
    [exc |-> r.exc, val |-> r.val, printed |-> <<>>]

\* lines 9-29: exc tells whether an exception leaves fetch_feed
fetch_feed(raw, source_name) ==
    LET r == TryBody(raw, source_name) IN
    IF r.exc
    THEN [exc |-> FALSE, val |-> <<>>,
          printed |-> <<Line("error", 0, source_name, <<>>, "")>>]
    ELSE [exc |-> FALSE, val |-> r.val, printed |-> <<>>]

----------------------------------------------------------------------------
(* main, lines 31-67 *)

\* the filter leaving out the entry stamped exactly the cutoff
PassesFilter_strict(entry, cutoff) == entry.date = None \/ entry.date > cutoff

\* the filter asking for a date
PassesFilter_dated(entry, cutoff) == entry.date # None /\ entry.date >= cutoff

\* line 48
PassesFilter(entry, cutoff) == entry.date = None \/ entry.date >= cutoff

\* the key of an entry without date being the latest time, not the earliest
SortKey_latest(x) == IF x.date # None THEN x.date ELSE MaxDate + 1

\* line 52: x['date'] or datetime.min
SortKey(x) == IF x.date # None THEN x.date ELSE DateMin

\* line 52: list.sort(reverse=True) is stable: of two entries with equal keys
\* the one that came first stays first
\* the sort without reverse=True: oldest first
RECURSIVE InsertAsc(_, _)
InsertAsc(s, x) ==
    IF s = <<>> THEN <<x>>
    ELSE IF SortKey(Head(s)) <= SortKey(x)
    THEN <<Head(s)>> \o InsertAsc(Tail(s), x)
    ELSE <<x>> \o s

\* a sort that is not stable: of two entries with equal keys the later one
\* comes first
RECURSIVE InsertDesc_unstable(_, _)
InsertDesc_unstable(s, x) ==
    IF s = <<>> THEN <<x>>
    ELSE IF SortKey(Head(s)) > SortKey(x)
    THEN <<Head(s)>> \o InsertDesc_unstable(Tail(s), x)
    ELSE <<x>> \o s

RECURSIVE InsertDesc(_, _)
InsertDesc(s, x) ==
    IF s = <<>> THEN <<x>>
    ELSE IF SortKey(Head(s)) >= SortKey(x)
    THEN <<Head(s)>> \o InsertDesc(Tail(s), x)
    ELSE <<x>> \o s

RECURSIVE SortFrom(_, _)
SortFrom(acc, rest) ==
    IF rest = <<>> THEN acc
    ELSE SortFrom(InsertDesc(acc, Head(rest)), Tail(rest))

SortDesc(s) == SortFrom(<<>>, s)

\* the report without its cut
TopSlice_all(sorted) == sorted

\* line 55
TopSlice(sorted) == Take(sorted, TopN)

\* line 61
date_str(item) ==
    IF item.date # None THEN ToString(item.date) \o ":00 UTC" ELSE "Unknown"

\* lines 60-65
ItemLines(top) ==
    [k \in 1..(4 * Len(top)) |->
        LET item == top[((k - 1) \div 4) + 1]
            n == ((k - 1) \div 4) + 1
        IN  CASE k % 4 = 1 -> Line("item", n, "", <<item.headline>>, "")
              [] k % 4 = 2 -> Line("source", n, item.source, <<>>, "")
              [] k % 4 = 3 -> Line("date", n, "", <<>>, date_str(item))
              [] OTHER -> Line("blank", n, "", <<>>, "")]

Init ==
    /\ pc = "loop"
    /\ i = 1
    /\ now = StartTime
    /\ cutoff_time = now - Window
    /\ fetched = <<>>
    /\ served = <<>>
    /\ entries = <<>>
    /\ all_entries = <<>>
    /\ top_10 = <<>>
    /\ stdout = <<>>

\* lines 44-49: one turn of the loop, raw being what feedparser.parse makes
\* of the feed
FetchStep(raw) ==
    /\ pc = "loop"
    /\ i <= NumFeeds
    /\ LET r == fetch_feed(raw, feeds[i].name) IN
        /\ fetched' = Append(fetched, feeds[i].name)
        /\ served' = Append(served, raw)
        /\ stdout' = stdout \o r.printed
        /\ IF r.exc
           THEN /\ pc' = "crashed"
                /\ UNCHANGED <<i, entries, all_entries>>
           ELSE /\ pc' = "loop"
                /\ i' = i + 1
                /\ entries' = r.val
                /\ all_entries' =
                     all_entries \o SelectSeq(r.val, LAMBDA e : PassesFilter(e, cutoff_time))
    /\ UNCHANGED <<now, cutoff_time, top_10>>

\* lines 51-67
Report ==
    /\ pc = "loop"
    /\ i > NumFeeds
    /\ LET sorted == SortDesc(all_entries)
           top == TopSlice(sorted)
       IN /\ all_entries' = sorted
          /\ top_10' = top
          /\ stdout' = stdout \o <<Line("header", Len(top), "", <<>>, ""),
                                   Line("rule", 0, "", <<>>, "")>>
                              \o ItemLines(top)
    /\ pc' = "done"
    /\ UNCHANGED <<i, now, cutoff_time, fetched, served, entries>>

Fetch ==
    /\ i <= NumFeeds
    /\ \E raw \in PadFeeds(MaxFree - FreeServed(served)) : FetchStep(raw)

Next == Fetch \/ Report

Spec == Init /\ [][Next]_vars

\* The step of Report, told by what it does to pc
Finish == pc = "loop" /\ i > NumFeeds /\ pc' = "done"

\* main is sequential code that runs on: the turn of the loop it has reached
\* is taken, and so is the report
FairSpec == Spec /\ WF_vars(Fetch) /\ WF_pc(Finish)

\* The first fetch alone, on feeds of every kind
FetchFirst ==
    /\ i = 1
    /\ \E raw \in RichFeeds(MaxRawLen) : FetchStep(raw)

SpecFetch == Init /\ [][FetchFirst]_vars

----------------------------------------------------------------------------
(* Vocabulary of the properties *)

FeedIndex(name) == CHOOSE k \in 1..NumFeeds : feeds[k].name = name

\* The place of an entry in its feed, which MkEntry wrote into its title
PlaceInFeed(e) == CHOOSE k \in 1..(PerFeed + 1) : ToString(k) = e.headline

\* The entries of served feed k that fetch_feed looks at
Looked(k) == Take(served[k].entries, PerFeed)

\* Fetching served feed k raises: in feedparser.parse, or on an entry
LacksTitle(k) == \E j \in DOMAIN Looked(k) : Looked(k)[j].title = <<>>

FetchFailed(k) == served[k].raises \/ LacksTitle(k)

Last == Len(served)

IsPrefix(s, t) == Len(s) <= Len(t) /\ SubSeq(t, 1, Len(s)) = s

Dated(e) == e.date # None

----------------------------------------------------------------------------
(* C1: a feed whose fetch fails, in feedparser.parse or on one of its      *)
(* entries after others were normalized, makes fetch_feed return the empty *)
(* sequence; no exception leaves fetch_feed; and neither the collected     *)
(* entries nor the report hold an entry of that source.                    *)
C1_FailedFeedYieldsNothing ==
    /\ pc # "crashed"
    /\ \A k \in 1..Last :
         FetchFailed(k) =>
           /\ (k = Last => entries = <<>>)
           /\ \A e \in Range(all_entries) \cup Range(top_10) :
                e.source # fetched[k]

\* A run ended whose report is not empty, one feed having failed on an entry
\* that follows normalized ones, another in feedparser.parse
C1_Witness ==
    /\ pc = "done"
    /\ top_10 # <<>>
    /\ \E k \in 1..Last :
         /\ ~served[k].raises
         /\ Looked(k)[1].title # <<>>
         /\ LacksTitle(k)
    /\ \E k \in 1..Last : served[k].raises

(* C2: an entry without title, published, updated or link is normalized    *)
(* all the same, title and link defaulting to the empty string, and the    *)
(* fetch returns the feed's entries: as many as it looked at.              *)
C2_MissingFieldsTolerated ==
    (Last = 1 /\ ~served[1].raises) =>
      /\ Len(entries) = Len(Looked(1))
      /\ \A j \in DOMAIN entries :
           /\ entries[j].headline =
                (IF Looked(1)[j].title = <<>> THEN "" ELSE Looked(1)[j].title[1])
           /\ entries[j].link =
                (IF Looked(1)[j].link = <<>> THEN "" ELSE Looked(1)[j].link[1])

\* C2 where the code does meet it: a fetch that succeeds returns one entry for
\* each entry it looked at, a missing link having become the empty string
C2_MissingLinkTolerated ==
    (Last = 1 /\ ~FetchFailed(1)) =>
      /\ Len(entries) = Len(Looked(1))
      /\ \A j \in DOMAIN entries :
           entries[j].link =
             (IF Looked(1)[j].link = <<>> THEN "" ELSE Looked(1)[j].link[1])

(* C3: an entry with a date passes the filter exactly when its date is not *)
(* before the start of the run minus 24 hours, the cutoff being that of    *)
(* the start of the run; no dated entry older than that is in the report.  *)
C3_RecencyFilter ==
    /\ cutoff_time = now - Window
    /\ \A e \in Range(entries) :
         Dated(e) => ((e \in Range(all_entries)) <=> (e.date >= now - Window))
    /\ \A e \in Range(top_10) : Dated(e) => e.date >= now - Window

\* A report with an entry stamped exactly the cutoff, an older entry of the
\* last feed having been left out
C3_Witness ==
    /\ pc = "done"
    /\ \E e \in Range(top_10) : e.date = now - Window
    /\ \E e \in Range(entries) : Dated(e) /\ e.date < now - Window
    /\ \E e \in Range(entries) : Dated(e) /\ e.date > now - Window

(* C4, as stated: of two dated entries of the report, A comes before B if  *)
(* and only if A's date is not before B's.                                 *)
C4_BeforeIffNotOlder ==
    \A p, q \in DOMAIN top_10 :
      (p # q /\ Dated(top_10[p]) /\ Dated(top_10[q])) =>
        ((p < q) <=> (top_10[p].date >= top_10[q].date))

(* C4, amended: of two dated entries of the report, the one that comes     *)
(* first is not the older one; so an entry with a later date than another  *)
(* comes before it, and entries of one date come in either order.          *)
C4_BeforeImpliesNotOlder ==
    \A p, q \in DOMAIN top_10 :
      (p < q /\ Dated(top_10[p]) /\ Dated(top_10[q])) =>
        top_10[p].date >= top_10[q].date

\* A report where an entry of a later feed comes before a dated entry of an
\* earlier feed, being newer, and where two entries have the same date
C4_Witness ==
    /\ pc = "done"
    /\ \E p, q \in DOMAIN top_10 :
         /\ p < q
         /\ Dated(top_10[q])
         /\ top_10[p].date > top_10[q].date
         /\ FeedIndex(top_10[p].source) > FeedIndex(top_10[q].source)
    /\ \E p, q \in DOMAIN top_10 :
         p < q /\ Dated(top_10[p]) /\ top_10[p].date = top_10[q].date

(* C5: every entry without date that a fetch returns passes the filter,    *)
(* and once the run is over it is missing from the report only if ten      *)
(* entries or more come before it in the sorted list.                      *)
C5_DatelessKept ==
    /\ \A e \in Range(entries) : ~Dated(e) => e \in Range(all_entries)
    /\ pc = "done" =>
         \A p \in DOMAIN all_entries :
           (~Dated(all_entries[p]) /\ all_entries[p] \notin Range(top_10)) => p > TopN

\* A run ended with one dateless entry in the report and another cut off
C5_Witness ==
    /\ pc = "done"
    /\ \E e \in Range(top_10) : ~Dated(e)
    /\ \E e \in Range(all_entries) : ~Dated(e) /\ e \notin Range(top_10)

\* e is not more recent than r, an entry without date being older than any
\* entry with one
NotNewer(e, r) == ~Dated(e) \/ (Dated(r) /\ e.date <= r.date)

(* C6: when more than ten entries pass the filter the report has exactly   *)
(* ten of them, and no entry left out is more recent than an entry of the  *)
(* report, entries without date counting as the oldest.                    *)
C6_TenMostRecent ==
    (pc = "done" /\ Len(all_entries) > TopN) =>
      /\ Len(top_10) = TopN
      /\ Range(top_10) \subseteq Range(all_entries)
      /\ \A e \in Range(all_entries) \ Range(top_10) :
           \A r \in Range(top_10) : NotNewer(e, r)

\* More than ten entries passed; a dated entry and a dateless one are left
\* out, and the report has entries of two dates
C6_Witness ==
    /\ pc = "done"
    /\ Len(all_entries) > TopN
    /\ \E e \in Range(all_entries) \ Range(top_10) : Dated(e)
    /\ \E e \in Range(all_entries) \ Range(top_10) : ~Dated(e)
    /\ \E e, r \in Range(top_10) : Dated(r) /\ e.date > r.date

LinesOf(kind) == {k \in DOMAIN stdout : stdout[k].kind = kind}

(* C7: the report never has more than ten entries, and the count of the    *)
(* header line is the number of entries listed.                            *)
C7_AtMostTen ==
    /\ Len(top_10) <= TopN
    /\ pc = "done" =>
         /\ Cardinality(LinesOf("header")) = 1
         /\ \A k \in LinesOf("header") :
              /\ stdout[k].n = Len(top_10)
              /\ stdout[k].n = Cardinality(LinesOf("item"))

\* More entries passed the filter than the report holds
C7_Witness ==
    /\ pc = "done"
    /\ Len(all_entries) > TopN
    /\ Len(top_10) = TopN
    /\ Cardinality(LinesOf("item")) = TopN

\* A time attribute of a raw entry is there and is not None
HasTime(raw_entry, a) == raw_entry[a] # <<>> /\ raw_entry[a][1] # <<>>

(* C8: the date of a normalized entry is the published time of the raw     *)
(* entry when it has one that is not empty, else its updated time when it  *)
(* has one that is not empty, else None; so it is None exactly when the    *)
(* raw entry has neither.                                                  *)
C8_TimestampPrecedence ==
    (Last = 1 /\ ~FetchFailed(1)) =>
      /\ Len(entries) = Len(Looked(1))
      /\ \A j \in DOMAIN entries :
           LET raw_entry == Looked(1)[j] IN
           /\ HasTime(raw_entry, "published_parsed") =>
                entries[j].date = raw_entry.published_parsed[1][1]
           /\ (~HasTime(raw_entry, "published_parsed")
                 /\ HasTime(raw_entry, "updated_parsed")) =>
                entries[j].date = raw_entry.updated_parsed[1][1]
           /\ (entries[j].date = None) <=>
                (~HasTime(raw_entry, "published_parsed")
                   /\ ~HasTime(raw_entry, "updated_parsed"))

\* A fetch returned an entry dated by its updated time, having no published
\* time, and an entry whose published time won over a different updated time
C8_Witness ==
    /\ Last = 1
    /\ Len(entries) = Len(Looked(1))
    /\ \E j \in DOMAIN entries :
         /\ Looked(1)[j].published_parsed = <<>>
         /\ HasTime(Looked(1)[j], "updated_parsed")
         /\ entries[j].date = Looked(1)[j].updated_parsed[1][1]
    /\ \E j \in DOMAIN entries :
         /\ HasTime(Looked(1)[j], "published_parsed")
         /\ HasTime(Looked(1)[j], "updated_parsed")
         /\ Looked(1)[j].published_parsed # Looked(1)[j].updated_parsed
         /\ entries[j].date = Looked(1)[j].published_parsed[1][1]

\* a was collected before b: its feed comes first in the list, or they are
\* of one feed and a comes first in it
CollectedBefore(a, b) ==
    \/ FeedIndex(a.source) < FeedIndex(b.source)
    \/ a.source = b.source /\ PlaceInFeed(a) < PlaceInFeed(b)

(* C9: the sort is stable: two entries of the report with equal keys, both *)
(* without date or both of one date, come in the order they were collected *)
(* in, feed by feed and then by place in the feed; and every entry without *)
(* date comes after every entry with one.                                  *)
C9_StableSort ==
    pc = "done" =>
      \A p, q \in DOMAIN top_10 :
        p < q =>
          /\ top_10[p].date = top_10[q].date => CollectedBefore(top_10[p], top_10[q])
          /\ ~Dated(top_10[p]) => ~Dated(top_10[q])

\* A report with two entries of one date from one feed and two from two
\* feeds, two dateless entries, and a newer entry collected after them all
C9_Witness ==
    /\ pc = "done"
    /\ \E p, q \in DOMAIN top_10 :
         /\ p < q /\ Dated(top_10[p])
         /\ top_10[p].date = top_10[q].date
         /\ top_10[p].source = top_10[q].source
    /\ \E p, q \in DOMAIN top_10 :
         /\ p < q /\ Dated(top_10[p])
         /\ top_10[p].date = top_10[q].date
         /\ top_10[p].source # top_10[q].source
    /\ \E p, q \in DOMAIN top_10 :
         p < q /\ ~Dated(top_10[p]) /\ ~Dated(top_10[q])
    /\ \E p \in DOMAIN top_10 :
         \A q \in DOMAIN top_10 :
           q # p => /\ top_10[p].date > top_10[q].date
                    /\ CollectedBefore(top_10[q], top_10[p])

\* The feeds fetched so far are the first feeds of the list, each once
FetchedInOrder ==
    /\ Len(fetched) <= NumFeeds
    /\ \A k \in DOMAIN fetched : fetched[k] = feeds[k].name

(* C10: whatever feeds fail, a run fetches every feed of the list once, in *)
(* the order of the list; a failed feed stops neither the later fetches    *)
(* nor removes entries collected before; and the run reaches the report,   *)
(* which it prints once, after the last fetch.                             *)
C10_RunReachesReport ==
    /\ [](pc # "crashed")
    /\ [](FetchedInOrder)
    /\ []((LinesOf("header") # {}) =>
            (pc = "done" /\ Len(fetched) = NumFeeds
               /\ Cardinality(LinesOf("header")) = 1))
    /\ [][Len(fetched') > Len(fetched) =>
            (Len(fetched') = Len(fetched) + 1 /\ IsPrefix(all_entries, all_entries'))]_vars
    /\ <>(pc = "done")

\* A run ended in which the first and the last feed failed and the feeds
\* between them gave the report its entries
C10_Witness ==
    /\ pc = "done"
    /\ FetchFailed(1)
    /\ FetchFailed(NumFeeds)
    /\ \E e \in Range(top_10) : e.source = feeds[2].name
    /\ \E e \in Range(top_10) : e.source = feeds[NumFeeds - 1].name

====
